---- MODULE Spec2Model ----
(***************************************************************************)
(* xo-server: the Scheduler (cron timer lifecycle of schedules) and the    *)
(* Api dispatcher (permission check, validation, resolution, invocation).  *)
(***************************************************************************)
EXTENDS Integers, Sequences, FiniteSets, TLC

(***************************************************************************)
(* Bounds                                                                  *)
(***************************************************************************)
\* number of CronJob objects alive at once (running, held in _cronJobs or with
\* a callback in flight)
MaxTimers == 2
\* number of update() calls suspended at their await
MaxPending == 1
\* number of fire callbacks suspended at their await
MaxInFlight == 1
\* number of nested checkAuthorization calls the call stack holds
MaxDepth == 4

(***************************************************************************)
(* Scheduler: inputs                                                       *)
(***************************************************************************)
Ids == {"s1", "s2"}
JobIds == {"j1", "j2"}
\* "bad" is a pattern the CronJob constructor rejects
Crons == {"c1", "c2", "bad"}

Sched(i, c, j, e) == [id |-> i, cron |-> c, job |-> j, enabled |-> e]

\* the schedules passed to add() and returned by getAllSchedules()
AddInputs ==
  { Sched("s1", "c1", "j1", TRUE), Sched("s1", "c2", "j1", FALSE),
    Sched("s1", "bad", "j1", TRUE), Sched("s2", "c1", "j1", TRUE) }

\* the schedules passed to update()
UpdateInputs ==
  { Sched("s1", "c2", "j2", TRUE), Sched("s1", "c2", "j1", FALSE),
    Sched("s2", "c1", "j2", FALSE) }

\* what getAllSchedules() may return: lists of schedules with distinct ids
StoreLists ==
  { << >> } \cup { <<s>> : s \in AddInputs } \cup
  { <<s, t>> : s \in { x \in AddInputs : x.id = "s1" },
               t \in { x \in AddInputs : x.id = "s2" } }

\* job definitions the Store may hold under a job id
JobVersions == {"v1", "v2"}
\* the job ids the Store has records for; any other id is never found
StoreJobs == {"j1"}
NoJob == "nojob"

NoExc == "none"
SchedulerErrors == {"ScheduleOverride", "NoSuchSchedule", "ScheduleNotEnabled",
                    "ScheduleAlreadyEnabled", "ScheduleJobNotFound"}

\* outcomes of CronJob.start() and CronJob.stop()
StartOutcomes == {"ok", "throw"}
StopOutcomes == {"ok", "throw"}

EmptyMap == [x \in {} |-> TRUE]
Put(f, k, v) == [x \in DOMAIN f \cup {k} |-> IF x = k THEN v ELSE f[x]]
Del(f, k) == [x \in DOMAIN f \ {k} |-> f[x]]

VARIABLES
  loaded,         \* _loadSchedules has passed its await: the tables exist
  schedules,      \* this._schedules
  scheduleTable,  \* this._scheduleTable (meaningful once loaded)
  cronJobs,       \* this._cronJobs: id -> index of the CronJob in timers
  timers,         \* the CronJob objects alive
  pending,        \* update() calls suspended between _disable and _add
  fires,          \* the fire callbacks suspended at getJob: timer -> whether
                  \* the tick came after _disable had stopped the timer
  jobStore,       \* the Store's jobs
  last            \* the last operation and its outcome

schedVars == <<loaded, schedules, scheduleTable, cronJobs, timers,
               pending, fires, jobStore, last>>

VARIABLES
  acl,            \* the permission store: the (object, permission) pairs granted
                  \* to the non-admin user
  pc,             \* where the call in progress stands
  call,           \* the arguments of the call: session user id, name, params
  user,           \* context.user
  params,         \* the params object, as mutated by resolveParams
  checks,         \* the authorization checks resolveParams started
  log,            \* the stages the call went through, in order
  outcome,        \* what the call returned or threw
  raised,         \* what the stage or the method body that ended the call
                  \* returned or threw, before call handed it to its caller
  graph,          \* which objects getObject knows during a checkAuthorization
  req,            \* the object and permission checkAuthorization was asked for
  stack,          \* the nested checkAuthorization calls in progress
  verdict         \* how the promise of the outermost call settled

authVars == <<graph, req, stack, verdict>>

apiVars == <<acl, pc, call, user, params, checks, log, outcome, raised,
             authVars>>

vars == <<schedVars, apiVars>>

(***************************************************************************)
(* Scheduler: the methods, as functions of the object's state              *)
(***************************************************************************)
Cur == [sch |-> schedules, tab |-> scheduleTable, cj |-> cronJobs,
        tm |-> timers, ld |-> loaded, exc |-> NoExc]

\* the identity given to the next CronJob constructed
FreeTimer(tm) ==
  CHOOSE n \in 1..MaxTimers :
    n \notin DOMAIN tm /\ \A m \in 1..MaxTimers : m \notin DOMAIN tm => n <= m

exists(st, id) == id \in DOMAIN st.sch

\* undefined and false are both falsy
isEnabled(st, id) == id \in DOMAIN st.tab /\ st.tab[id] = TRUE

_enable(st, schedule, startOut) ==
  IF schedule.cron = "bad"
  THEN [st EXCEPT !.exc = "CronError"]
  ELSE LET n == FreeTimer(st.tm)
           t == [sid |-> schedule.id, cron |-> schedule.cron,
                 job |-> schedule.job, running |-> FALSE, retired |-> FALSE]
           s1 == [st EXCEPT !.tm = Put(st.tm, n, t),
                            !.cj = Put(st.cj, schedule.id, n)]
       IN IF startOut = "ok"
          THEN [s1 EXCEPT !.tm[n].running = TRUE,
                          !.tab = Put(s1.tab, schedule.id, TRUE)]
          ELSE [s1 EXCEPT !.exc = "StartError"]

_add(st, schedule, startOut) ==
  LET s1 == [st EXCEPT !.sch = Put(st.sch, schedule.id, schedule)]
  IN IF ~st.ld
     THEN [s1 EXCEPT !.exc = "TypeError"]
     ELSE LET s2 == [s1 EXCEPT !.tab = Put(s1.tab, schedule.id, FALSE)]
          IN IF schedule.enabled THEN _enable(s2, schedule, startOut) ELSE s2

\* _disable without the call of stop(): the handle is dropped, the timer runs on
_disable_noStop(st, id, stopOut) ==
  IF ~exists(st, id) THEN [st EXCEPT !.exc = "NoSuchSchedule"]
  ELSE IF ~st.ld THEN [st EXCEPT !.exc = "TypeError"]
  ELSE IF ~isEnabled(st, id) THEN [st EXCEPT !.exc = "ScheduleNotEnabled"]
  ELSE IF id \notin DOMAIN st.cj THEN [st EXCEPT !.exc = "TypeError"]
  ELSE [st EXCEPT !.tm[st.cj[id]].retired = TRUE,
                  !.cj = Del(st.cj, id),
                  !.tab = Put(st.tab, id, FALSE)]

_disable(st, id, stopOut) ==
  IF ~exists(st, id) THEN [st EXCEPT !.exc = "NoSuchSchedule"]
  ELSE IF ~st.ld THEN [st EXCEPT !.exc = "TypeError"]
  ELSE IF ~isEnabled(st, id) THEN [st EXCEPT !.exc = "ScheduleNotEnabled"]
  ELSE IF id \notin DOMAIN st.cj THEN [st EXCEPT !.exc = "TypeError"]
  ELSE LET n == st.cj[id]
       IN IF stopOut = "ok"
          THEN [st EXCEPT !.tm[n].running = FALSE,
                          !.tm[n].retired = TRUE,
                          !.cj = Del(st.cj, id),
                          !.tab = Put(st.tab, id, FALSE)]
          ELSE [st EXCEPT !.exc = "StopError"]

\* `!exc instanceof SchedulerError` parses as `(!exc) instanceof SchedulerError`:
\* a boolean is never an instance
removeRethrows(exc) == FALSE

remove(st, id, stopOut) ==
  LET d == _disable(st, id, stopOut)
      thrown == IF d.exc # NoExc /\ removeRethrows(d.exc) THEN d.exc ELSE NoExc
      s1 == [d EXCEPT !.sch = Del(d.sch, id)]
  IN IF ~st.ld
     THEN [s1 EXCEPT !.exc = "TypeError"]
     ELSE [s1 EXCEPT !.tab = Del(s1.tab, id), !.exc = thrown]

\* add without the test of exists
add_overwrite(st, schedule, startOut) == _add(st, schedule, startOut)

add(st, schedule, startOut) ==
  IF exists(st, schedule.id)
  THEN [st EXCEPT !.exc = "ScheduleOverride"]
  ELSE _add(st, schedule, startOut)

RECURSIVE addEach(_, _, _)
addEach(st, list, startOuts) ==
  IF list = << >> THEN st
  ELSE LET s1 == _add(st, Head(list), startOuts[Head(list).id])
       IN IF s1.exc # NoExc THEN s1 ELSE addEach(s1, Tail(list), startOuts)

_loadSchedules(st, list, startOuts) ==
  addEach([st EXCEPT !.ld = TRUE, !.tab = EmptyMap, !.cj = EmptyMap],
          list, startOuts)

RECURSIVE disableEach(_, _, _)
disableEach(st, order, stopOuts) ==
  IF order = << >> THEN st
  ELSE LET id == Head(order)
           s1 == IF isEnabled(st, id) THEN _disable(st, id, stopOuts[id])
                 ELSE st
       IN IF s1.exc # NoExc THEN s1 ELSE disableEach(s1, Tail(order), stopOuts)

\* the orders in which forEach may visit the keys of the table
KeyOrders(tab) ==
  { o \in UNION { [1..n -> DOMAIN tab] : n \in {Cardinality(DOMAIN tab)} } :
      \A i, j \in DOMAIN o : i # j => o[i] # o[j] }

disableAll(st, order, stopOuts) ==
  IF ~st.ld THEN st ELSE disableEach(st, order, stopOuts)

(***************************************************************************)
(* Scheduler: actions                                                      *)
(***************************************************************************)
\* a CronJob that is stopped, held by no handle and has no callback in flight
\* can do nothing any more: it is garbage
Alive(tm, cj, fs) ==
  { n \in DOMAIN tm : tm[n].running \/ n \in fs \/ \E id \in DOMAIN cj : cj[id] = n }

Collect(tm, cj, fs) == [n \in Alive(tm, cj, fs) |-> tm[n]]

Commit(st) ==
  /\ loaded' = st.ld
  /\ schedules' = st.sch
  /\ scheduleTable' = st.tab
  /\ cronJobs' = st.cj
  /\ timers' = Collect(st.tm, st.cj, DOMAIN fires)

Event(op, id, exc) ==
  [op |-> op, id |-> id, exc |-> exc, inner |-> NoExc, wasEnabled |-> FALSE,
   timer |-> 0, late |-> FALSE, stopped |-> FALSE, job |-> NoJob]

Room(k) == Cardinality(DOMAIN timers) + k <= MaxTimers

SchedInit ==
  /\ loaded = FALSE
  /\ schedules = EmptyMap
  /\ scheduleTable = EmptyMap
  /\ cronJobs = EmptyMap
  /\ timers = EmptyMap
  /\ pending = {}
  /\ fires = EmptyMap
  /\ jobStore = [j \in JobIds |-> IF j \in StoreJobs THEN "v1" ELSE NoJob]
  /\ last = Event("new", "", NoExc)

\* the outcome of start() is an input only where start() is called
Starts(list, id) ==
  \E i \in DOMAIN list : list[i].id = id /\ list[i].enabled /\ list[i].cron # "bad"

LoadWith(ids, startSet) ==
  /\ ~loaded
  /\ \E list \in StoreLists, so \in [Ids -> startSet] :
       LET st == _loadSchedules(Cur, list, so)
       IN /\ \A i \in DOMAIN list : list[i].id \in ids
          /\ \A id \in Ids : Starts(list, id) \/ so[id] = "ok"
          /\ Room(Len(list))
          /\ Commit(st)
          /\ last' = Event("load", "", st.exc)
  /\ UNCHANGED <<pending, fires, jobStore, apiVars>>

AddWith(ids, startSet) ==
  /\ \E s \in AddInputs, so \in startSet :
       LET st == add(Cur, s, so)
       IN /\ s.id \in ids
          /\ Starts(<<s>>, s.id) \/ so = "ok"
          /\ s.enabled => Room(1)
          /\ Commit(st)
          /\ last' = Event("add", s.id, st.exc)
  /\ UNCHANGED <<pending, fires, jobStore, apiVars>>

RemoveWith(ids, stopSet) ==
  /\ \E id \in ids, sp \in stopSet :
       LET st == remove(Cur, id, sp)
       IN /\ isEnabled(Cur, id) \/ sp = "ok"
          /\ Commit(st)
          /\ last' = [Event("remove", id, st.exc) EXCEPT
                        !.inner = _disable(Cur, id, sp).exc,
                        !.wasEnabled = isEnabled(Cur, id)]
  /\ UNCHANGED <<pending, fires, jobStore, apiVars>>

\* update() up to its await: with the schedule enabled, _disable runs and the
\* call is suspended; otherwise _add runs at once
UpdateWith(ids, startSet, stopSet) ==
  \E s \in UpdateInputs, so \in startSet, sp \in stopSet :
    /\ s.id \in ids
    /\ isEnabled(Cur, s.id) \/ sp = "ok"
    /\ (Starts(<<s>>, s.id) /\ ~isEnabled(Cur, s.id)) \/ so = "ok"
    /\ s.enabled => Room(1)
    /\ IF ~exists(Cur, s.id)
       THEN /\ last' = Event("update", s.id, "NoSuchSchedule")
            /\ UNCHANGED <<loaded, schedules, scheduleTable, cronJobs, timers,
                           pending>>
       ELSE IF ~loaded
       THEN /\ last' = Event("update", s.id, "TypeError")
            /\ UNCHANGED <<loaded, schedules, scheduleTable, cronJobs, timers,
                           pending>>
       ELSE IF isEnabled(Cur, s.id)
       THEN LET st == _disable(Cur, s.id, sp)
            IN /\ Commit(st)
               /\ IF st.exc = NoExc
                  THEN /\ Cardinality(pending \cup {s}) <= MaxPending
                       /\ pending' = pending \cup {s}
                       /\ last' = [Event("updateAwait", s.id, NoExc) EXCEPT
                                     !.wasEnabled = TRUE]
                  ELSE /\ pending' = pending
                       /\ last' = [Event("update", s.id, st.exc) EXCEPT
                                     !.wasEnabled = TRUE]
       ELSE LET st == _add(Cur, s, so)
            IN /\ Commit(st)
               /\ pending' = pending
               /\ last' = Event("update", s.id, st.exc)
    /\ UNCHANGED <<fires, jobStore, apiVars>>

\* update() after its await
UpdateResumeWith(startSet) ==
  /\ \E s \in pending, so \in startSet :
       LET st == _add(Cur, s, so)
       IN /\ Starts(<<s>>, s.id) \/ so = "ok"
          /\ s.enabled => Room(1)
          /\ Commit(st)
          /\ pending' = pending \ {s}
          /\ last' = [Event("update", s.id, st.exc) EXCEPT !.wasEnabled = TRUE]
  /\ UNCHANGED <<fires, jobStore, apiVars>>

DisableAllWith(stopSet) ==
  /\ \E order \in KeyOrders(scheduleTable), sp \in [Ids -> stopSet] :
       LET st == disableAll(Cur, order, sp)
       IN /\ \A id \in Ids : isEnabled(Cur, id) \/ sp[id] = "ok"
          /\ Commit(st)
          /\ last' = Event("disableAll", "", st.exc)
  /\ UNCHANGED <<pending, fires, jobStore, apiVars>>

\* a tick of a running CronJob: the callback starts and awaits _getJob
Tick ==
  /\ \E n \in DOMAIN timers :
       /\ timers[n].running
       /\ n \notin DOMAIN fires
       /\ Cardinality(DOMAIN fires) < MaxInFlight
       /\ fires' = Put(fires, n, timers[n].retired)
  /\ UNCHANGED <<loaded, schedules, scheduleTable, cronJobs, timers,
                 pending, jobStore, last, apiVars>>

\* a failed fire taken to disable its schedule
FireDone_disables ==
  /\ \E n \in DOMAIN fires :
       LET job == jobStore[timers[n].job]
           sid == timers[n].sid
           off == job = NoJob /\ sid \in DOMAIN scheduleTable
       IN /\ fires' = Del(fires, n)
          /\ scheduleTable' = IF off THEN Put(scheduleTable, sid, FALSE)
                                     ELSE scheduleTable
          /\ timers' = Collect(timers, cronJobs, DOMAIN fires \ {n})
          /\ last' = [Event(IF job = NoJob THEN "fireFailed" ELSE "exec", sid,
                            IF job = NoJob THEN "ScheduleJobNotFound" ELSE NoExc)
                        EXCEPT !.timer = n, !.job = job, !.late = fires[n],
                               !.stopped = timers[n].retired]
  /\ UNCHANGED <<loaded, schedules, cronJobs, pending, jobStore, apiVars>>

\* the callback using the definition the Store held at construction
FireDone_cached ==
  /\ \E n \in DOMAIN fires :
       /\ fires' = Del(fires, n)
       /\ timers' = Collect(timers, cronJobs, DOMAIN fires \ {n})
       /\ LET job == IF timers[n].job \in StoreJobs THEN "v1" ELSE NoJob
          IN last' = [Event(IF job = NoJob THEN "fireFailed" ELSE "exec",
                            timers[n].sid,
                            IF job = NoJob THEN "ScheduleJobNotFound" ELSE NoExc)
                        EXCEPT !.timer = n, !.job = job, !.late = fires[n],
                               !.stopped = timers[n].retired]
  /\ UNCHANGED <<loaded, schedules, scheduleTable, cronJobs, pending, jobStore,
                 apiVars>>

\* _getJob answers: the callback calls executor.exec or fails
FireDone ==
  /\ \E n \in DOMAIN fires :
       /\ fires' = Del(fires, n)
       /\ timers' = Collect(timers, cronJobs, DOMAIN fires \ {n})
       /\ LET job == jobStore[timers[n].job]
          IN last' = [Event(IF job = NoJob THEN "fireFailed" ELSE "exec",
                            timers[n].sid,
                            IF job = NoJob THEN "ScheduleJobNotFound" ELSE NoExc)
                        EXCEPT !.timer = n, !.job = job, !.late = fires[n],
                               !.stopped = timers[n].retired]
  /\ UNCHANGED <<loaded, schedules, scheduleTable, cronJobs, pending, jobStore,
                 apiVars>>

\* the Store's job records change behind the scheduler
StoreChange ==
  /\ \E j \in StoreJobs, v \in JobVersions \cup {NoJob} :
       /\ jobStore[j] # v
       /\ jobStore' = [jobStore EXCEPT ![j] = v]
  /\ UNCHANGED <<loaded, schedules, scheduleTable, cronJobs, timers,
                 pending, fires, last, apiVars>>

(***************************************************************************)
(* Api: users, objects, permission store, method registry                  *)
(***************************************************************************)
Undefined == "undefined"
NoUser == ""

\* session.get('user_id'): none, a non-admin, an admin, an id _getUser rejects
SessionUsers == {NoUser, "alice", "root", "ghost"}

\* the permission of each user model
UserPermission == [alice |-> "read", root |-> "admin"]

\* $User.hasPermission: a permission outside the table compares as undefined
perms == [none |-> 0, read |-> 1, write |-> 2, admin |-> 3]

hasPermission(u, permission) ==
  /\ permission \in DOMAIN perms
  /\ perms[UserPermission[u]] >= perms[permission]

NoRef == ""
Obj(type) ==
  [type |-> type, network |-> NoRef, VM |-> NoRef, SR |-> NoRef,
   VBDs |-> << >>, VDI |-> NoRef, object |-> NoRef, host |-> NoRef,
   snapshot_of |-> NoRef]

\* the objects getObject knows
Objects ==
  [net1 |-> Obj("network"),
   vm1 |-> Obj("VM"),
   sr1 |-> Obj("SR"),
   vif1 |-> [Obj("VIF") EXCEPT !.network = "net1", !.VM = "vm1"],
   vbd1 |-> [Obj("VBD") EXCEPT !.VDI = "vdi1", !.VM = "vm1"],
   vdi1 |-> [Obj("VDI") EXCEPT !.SR = "sr1", !.VBDs = <<"vbd1">>],
   host1 |-> Obj("host"),
   tpl1 |-> Obj("VM-template"),
   msg1 |-> [Obj("message") EXCEPT !.object = "vbd1"],
   msg2 |-> [Obj("message") EXCEPT !.object = "gone"],
   task1 |-> [Obj("task") EXCEPT !.host = "host1"],
   snap1 |-> [Obj("VM-snapshot") EXCEPT !.snapshot_of = "vm1"]]

AnyType == {Objects[i].type : i \in DOMAIN Objects}

\* getObject(id, types) returns the object or throws NoSuchObject
getObjectOk(id, types) == id \in DOMAIN Objects /\ Objects[id].type \in types

\* what the permission store may hold for the non-admin user
AclChoices ==
  SUBSET {<<"vm1", "operate">>, <<"sr1", "operate">>, <<"net1", "operate">>,
          <<"vm1", "administrate">>}

\* this.hasPermission(userId, object.id, permission) of the permission store
storeHasPermission(store, userId, id, permission) ==
  userId = "alice" /\ <<id, permission>> \in store

\* Bluebird.any: fulfilled as soon as one promise is
BluebirdAny(results) == \E i \in DOMAIN results : results[i]

\* one fulfilled promise taken to be enough
BluebirdAll_any(results) == \E i \in DOMAIN results : results[i]

\* Bluebird.all: fulfilled when every promise is
BluebirdAll(results) == \A i \in DOMAIN results : results[i]

RECURSIVE checkAuthorization(_, _, _, _)
\* the parent looked up directly in the permission store
checkMemberAuthorization_direct(store, userId, ref, permission) ==
  /\ getObjectOk(ref, AnyType)
  /\ storeHasPermission(store, userId, ref, permission)

checkMemberAuthorization(store, userId, ref, permission) ==
  /\ getObjectOk(ref, AnyType)
  /\ checkAuthorization(store, userId, ref, permission)

checkAuthorizationVDI(store, userId, vdi, permission) ==
  /\ \A i \in DOMAIN vdi.VBDs : getObjectOk(vdi.VBDs[i], {"VBD"})
  /\ \A i \in DOMAIN vdi.VBDs : getObjectOk(Objects[vdi.VBDs[i]].VM, {"VM"})
  /\ getObjectOk(vdi.SR, {"SR"})
  /\ BluebirdAny(
       [i \in DOMAIN vdi.VBDs |->
          checkAuthorization(store, userId, Objects[vdi.VBDs[i]].VM, permission)]
       \o <<checkAuthorization(store, userId, vdi.SR, permission)>>)

\* both containing objects required
checkAuthorizationVIF_all(store, userId, vif, permission) ==
  /\ getObjectOk(vif.network, AnyType)
  /\ getObjectOk(vif.VM, AnyType)
  /\ checkAuthorization(store, userId, vif.network, permission)
  /\ checkAuthorization(store, userId, vif.VM, permission)

checkAuthorizationVIF(store, userId, vif, permission) ==
  /\ getObjectOk(vif.network, AnyType)
  /\ getObjectOk(vif.VM, AnyType)
  /\ BluebirdAny(<<checkAuthorization(store, userId, vif.network, permission),
                   checkAuthorization(store, userId, vif.VM, permission)>>)

defaultCheckAuthorization(store, userId, id, permission) ==
  storeHasPermission(store, userId, id, permission)

\* TRUE: the promise is fulfilled; FALSE: it is rejected
checkAuthorization(store, userId, id, permission) ==
  LET object == Objects[id]
  IN CASE object.type \in {"network", "VM-template"} -> TRUE
       [] object.type = "message" ->
            checkMemberAuthorization(store, userId, object.object, permission)
       [] object.type = "task" ->
            checkMemberAuthorization(store, userId, object.host, permission)
       [] object.type = "VBD" ->
            checkMemberAuthorization(store, userId, object.VDI, permission)
       [] object.type = "VDI" ->
            checkAuthorizationVDI(store, userId, object, permission)
       [] object.type = "VIF" ->
            checkAuthorizationVIF(store, userId, object, permission)
       [] object.type = "VM-snapshot" ->
            checkMemberAuthorization(store, userId, object.snapshot_of, permission)
       [] OTHER -> defaultCheckAuthorization(store, userId, id, permission)

\* a params value: a string, a number, or (after resolution) an object
Str(v) == [t |-> "string", v |-> v]
Num == [t |-> "number", v |-> "42"]
Resolved(id) == [t |-> "object", v |-> id]

\* a property of a params schema: { type: 'string' } or with optional: true
Required == [optional |-> FALSE]
Optional == [optional |-> TRUE]

\* the permission of a resolve entry as forEach destructures it
level(permission) ==
  IF permission = Undefined THEN "administrate" ELSE permission

\* a resolve entry  key: [param, types, permission = 'administrate'], with
\* the permission the entry was written with kept as given
Entry(key, param, types, permission) ==
  [key |-> key, param |-> param, types |-> types,
   permission |-> level(permission), given |-> permission]

Method(permission, hasParams, schema, resolve) ==
  [permission |-> permission, hasParams |-> hasParams, params |-> schema,
   resolve |-> resolve]

\* this._methods: the methods of the sources and four more registered through
\* addMethods (login only, 'read', a VDI with no permission in its resolve
\* entry, two resolve entries)
Methods ==
  [m \in {"system.getVersion", "user.create", "vif.delete", "vif.connect",
          "session.signOut", "user.getAll", "vdi.delete", "vm.attachDisk"} |->
     CASE m = "system.getVersion" -> Method(Undefined, FALSE, EmptyMap, << >>)
       [] m = "user.create" ->
            Method("admin", TRUE,
                   [email |-> Required, password |-> Required,
                    permission |-> Optional], << >>)
       [] m = "vif.delete" ->
            Method(Undefined, TRUE, [id |-> Required],
                   <<Entry("vif", "id", {"VIF"}, "administrate")>>)
       [] m = "vif.connect" ->
            Method(Undefined, TRUE, [id |-> Required],
                   <<Entry("vif", "id", {"VIF"}, "operate")>>)
       [] m = "session.signOut" -> Method("", FALSE, EmptyMap, << >>)
       [] m = "user.getAll" -> Method("read", FALSE, EmptyMap, << >>)
       [] m = "vdi.delete" ->
            Method(Undefined, TRUE, [id |-> Required],
                   <<Entry("vdi", "id", {"VDI"}, Undefined)>>)
       [] OTHER ->
            Method(Undefined, TRUE, [vdi |-> Required, vm |-> Optional],
                   <<Entry("vdi", "vdi", {"VDI"}, "operate"),
                     Entry("vm", "vm", {"VM"}, "operate")>>)]

\* the names call() is given: the registered ones and one that is not
CallNames == DOMAIN Methods \cup {"no.such"}

\* the params objects call() is given
ParamInputs ==
  { EmptyMap,
    [id |-> Str("vif1")], [id |-> Str("vdi1")], [id |-> Str("gone")],
    [id |-> Str("vdi1"), force |-> Str("yes")],
    [id |-> Num],
    [email |-> Str("a@b.c"), password |-> Str("x")], [email |-> Str("a@b.c")],
    [vdi |-> Str("vdi1"), vm |-> Str("vm1")], [vdi |-> Str("vdi1")] }

(***************************************************************************)
(* Api: the stages of call                                                 *)
(***************************************************************************)
\* getMethod(name) is undefined for a name that is not registered
registered(name) == name \in DOMAIN Methods

getMethod(name) == Methods[name]

\* the login-only test made before the test for a user
checkPermission_loginFirst(method, u) ==
  IF method.permission = Undefined THEN NoExc
  ELSE IF method.permission = "" THEN NoExc
  ELSE IF u = NoUser THEN "Unauthorized"
  ELSE IF ~hasPermission(u, method.permission) THEN "Unauthorized"
  ELSE NoExc

checkPermission(method, u) ==
  IF method.permission = Undefined THEN NoExc
  ELSE IF u = NoUser THEN "Unauthorized"
  ELSE IF method.permission = "" THEN NoExc
  ELSE IF ~hasPermission(u, method.permission) THEN "Unauthorized"
  ELSE NoExc

\* schemaInspector.validate({type: 'object', properties: schema}, params)
valid(schema, ps) ==
  \A k \in DOMAIN schema :
    IF k \in DOMAIN ps THEN ps[k].t = "string" ELSE schema[k].optional

\* the result of the validation ignored
checkParams_ignoreResult(method, ps) == NoExc

checkParams(method, ps) ==
  IF ~method.hasParams THEN NoExc
  ELSE IF ~valid(method.params, ps) THEN "InvalidParameters"
  ELSE NoExc

\* the raw id left in params next to the looked-up object
replaceParam_keepsId(ps, e, id) == Put(ps, e.key, Resolved(id))

\* delete params[param]; params[key] = object
replaceParam(ps, e, id) == Put(Del(ps, e.param), e.key, Resolved(id))

\* the forEach of resolveParams: look each object up, replace the id by the
\* object, start the authorization check of a non-admin
RECURSIVE resolveEach(_, _, _)
resolveEach(entries, isAdmin, st) ==
  IF entries = << >> THEN st
  ELSE LET e == Head(entries)
       IN IF e.param \notin DOMAIN st.params
          THEN resolveEach(Tail(entries), isAdmin, st)
          ELSE LET id == st.params[e.param].v
                   looked == [st EXCEPT !.log = Append(st.log, "getObject")]
               IN IF ~getObjectOk(id, e.types)
                  THEN [looked EXCEPT !.exc = "NoSuchObject"]
                  ELSE resolveEach(Tail(entries), isAdmin,
                         [looked EXCEPT
                            !.params = replaceParam(st.params, e, id),
                            !.checks =
                              IF isAdmin THEN st.checks
                              ELSE Append(st.checks,
                                     [key |-> e.key, object |-> id,
                                      permission |-> e.permission])])

\* an admin taken to need no object lookup either
resolveParams_adminSkips(method, u, st) ==
  IF method.resolve = << >> THEN st
  ELSE IF u = NoUser THEN [st EXCEPT !.exc = "Unauthorized"]
  ELSE IF hasPermission(u, "admin") THEN st
  ELSE resolveEach(method.resolve, FALSE, st)

\* resolveParams up to the promise it returns
resolveParams(method, u, st) ==
  IF method.resolve = << >> THEN st
  ELSE IF u = NoUser THEN [st EXCEPT !.exc = "Unauthorized"]
  ELSE resolveEach(method.resolve, hasPermission(u, "admin"), st)

\* the params validated before the permission is checked
stages_validateFirst(method, u, ps) ==
  LET st0 == [params |-> ps, checks |-> << >>, exc |-> NoExc,
              log |-> <<"checkParams">>]
      v == checkParams(method, ps)
  IN IF v # NoExc THEN [st0 EXCEPT !.exc = v]
     ELSE LET st1 == [st0 EXCEPT !.log = Append(st0.log, "checkPermission")]
              p == checkPermission(method, u)
          IN IF p # NoExc THEN [st1 EXCEPT !.exc = p]
             ELSE resolveParams(method, u, st1)

\* the try block of call up to the await of resolveParams
stages(method, u, ps) ==
  LET st0 == [params |-> ps, checks |-> << >>, exc |-> NoExc,
              log |-> <<"checkPermission">>]
      p == checkPermission(method, u)
  IN IF p # NoExc THEN [st0 EXCEPT !.exc = p]
     ELSE LET st1 == [st0 EXCEPT !.log = Append(st0.log, "checkParams")]
              v == checkParams(method, ps)
          IN IF v # NoExc THEN [st1 EXCEPT !.exc = v]
             ELSE resolveParams(method, u, st1)

\* the results of the checks resolveParams started
settled(store, u, cs) ==
  [i \in DOMAIN cs |-> checkAuthorization(store, u, cs[i].object, cs[i].permission)]

(***************************************************************************)
(* Api: actions                                                            *)
(***************************************************************************)
NoCall == [user |-> NoUser, name |-> "", params |-> EmptyMap]
NoOutcome == [kind |-> "none", v |-> ""]
Threw(e) == [kind |-> "error", v |-> e]
Returned(v) == [kind |-> "value", v |-> v]

\* what a method body may do: return a value, return nothing, throw
BodyResults == {Returned("result"), Returned(Undefined), Threw("BodyError")}

\* every error logged and replaced by a success
handOver_swallows(r) ==
  IF r.kind = "error" \/ r = Returned(Undefined) THEN Returned("true") ELSE r

\* the end of the try block of call: a result that is undefined becomes
\* true, an error is logged and thrown again
handOver(r) == IF r = Returned(Undefined) THEN Returned("true") ELSE r

NoReq == [id |-> NoRef, permission |-> ""]

\* no checkAuthorization in progress
AuthQuiet ==
  /\ graph = "dag"
  /\ req = NoReq
  /\ stack = << >>
  /\ verdict = "none"

ApiQuiet ==
  /\ acl = {}
  /\ pc = "idle"
  /\ call = NoCall
  /\ user = NoUser
  /\ params = EmptyMap
  /\ checks = << >>
  /\ log = << >>
  /\ outcome = NoOutcome
  /\ raised = NoOutcome
  /\ AuthQuiet

ApiInit ==
  /\ acl \in AclChoices
  /\ pc = "idle"
  /\ call = NoCall
  /\ user = NoUser
  /\ params = EmptyMap
  /\ checks = << >>
  /\ log = << >>
  /\ outcome = NoOutcome
  /\ raised = NoOutcome
  /\ AuthQuiet

\* the user fetched before the method is looked up
Call_fetchFirst ==
  /\ pc \in {"idle", "done"}
  /\ \E u \in SessionUsers, name \in CallNames, ps \in ParamInputs :
       /\ call' = [user |-> u, name |-> name, params |-> ps]
       /\ params' = ps
       /\ checks' = << >>
       /\ IF ~registered(name)
          THEN /\ log' = IF u # NoUser THEN <<"fetchUser", "lookup">>
                                       ELSE <<"lookup">>
               /\ user' = IF u \in DOMAIN UserPermission THEN u ELSE NoUser
               /\ outcome' = Threw("MethodNotFound")
               /\ pc' = "done"
          ELSE /\ outcome' = NoOutcome
               /\ user' = NoUser
               /\ IF u # NoUser
                  THEN log' = <<"lookup", "fetchUser">> /\ pc' = "fetch"
                  ELSE log' = <<"lookup">> /\ pc' = "check"
  /\ raised' = outcome'
  /\ UNCHANGED <<acl, authVars, schedVars>>

\* call(session, name, params) up to its first await
Call ==
  /\ pc \in {"idle", "done"}
  /\ \E u \in SessionUsers, name \in CallNames, ps \in ParamInputs :
       /\ call' = [user |-> u, name |-> name, params |-> ps]
       /\ params' = ps
       /\ user' = NoUser
       /\ checks' = << >>
       /\ IF ~registered(name)
          THEN /\ log' = <<"lookup">>
               /\ outcome' = Threw("MethodNotFound")
               /\ pc' = "done"
          ELSE /\ outcome' = NoOutcome
               /\ IF u # NoUser
                  THEN log' = <<"lookup", "fetchUser">> /\ pc' = "fetch"
                  ELSE log' = <<"lookup">> /\ pc' = "check"
  /\ raised' = outcome'
  /\ UNCHANGED <<acl, authVars, schedVars>>

\* context._getUser(userId) answers
FetchUser ==
  /\ pc = "fetch"
  /\ IF call.user \in DOMAIN UserPermission
     THEN /\ user' = call.user
          /\ pc' = "check"
          /\ outcome' = outcome
     ELSE /\ user' = NoUser
          /\ pc' = "done"
          /\ outcome' = Threw("NoSuchUser")
  /\ raised' = outcome'
  /\ UNCHANGED <<acl, call, params, checks, log, authVars, schedVars>>

\* checkPermission, checkParams and resolveParams up to its promise
Check ==
  /\ pc = "check"
  /\ LET st == stages(getMethod(call.name), user, params)
     IN /\ params' = st.params
        /\ checks' = st.checks
        /\ log' = log \o st.log
        /\ IF st.exc # NoExc
           THEN /\ raised' = Threw(st.exc)
                /\ outcome' = handOver(Threw(st.exc))
                /\ pc' = "done"
           ELSE /\ raised' = raised
                /\ outcome' = outcome
                /\ pc' = "resolve"
  /\ UNCHANGED <<acl, call, user, authVars, schedVars>>

\* the promise of resolveParams settles; fulfilled, the method body is called
Resolve ==
  /\ pc = "resolve"
  /\ IF BluebirdAll(settled(acl, user, checks))
     THEN /\ log' = Append(log, "invoke")
          /\ pc' = "body"
          /\ raised' = raised
          /\ outcome' = outcome
     ELSE /\ log' = log
          /\ pc' = "done"
          /\ raised' = Threw("Unauthorized")
          /\ outcome' = handOver(Threw("Unauthorized"))
  /\ UNCHANGED <<acl, call, user, params, checks, authVars, schedVars>>

\* the method body settles
Body ==
  /\ pc = "body"
  /\ \E r \in BodyResults :
       /\ raised' = r
       /\ outcome' = handOver(r)
  /\ pc' = "done"
  /\ UNCHANGED <<acl, call, user, params, checks, log, authVars, schedVars>>

(***************************************************************************)
(* Api: checkAuthorization as the chain of calls it makes                  *)
(***************************************************************************)
Permissions == {"operate", "administrate"}

\* what the permission store may hold during a check
AuthStores ==
  SUBSET {<<"vm1", "operate">>, <<"sr1", "operate">>, <<"host1", "operate">>}

\* malformed data: a snapshot of a message about that snapshot
LoopObjects ==
  [Objects EXCEPT !["snap1"].snapshot_of = "msg2", !["msg2"].object = "snap1"]

Graphs == {"dag", "loop"}

ObjectsOf(g) == IF g = "dag" THEN Objects ELSE LoopObjects

\* the entry of checkAuthorizationByTypes for a type, or the default
Rule(type) ==
  CASE type \in {"network", "VM-template"} -> "authorized"
    [] type \in {"message", "task", "VBD", "VM-snapshot"} -> "member"
    [] type \in {"VDI", "VIF"} -> "any"
    [] OTHER -> "default"

\* getObject(id, types) over the data of the check
Found(objs, id, types) == id \in DOMAIN objs /\ objs[id].type \in types

TypesOf(objs) == {objs[i].type : i \in DOMAIN objs}

\* a rule that checks its own object again instead of the one it refers to
Children_self(objs, id) ==
  IF Rule(objs[id].type) = "member" THEN <<id>> ELSE << >>

\* the objects a rule calls checkAuthorization for, in the order of the calls;
\* a rule whose getObject throws makes no call and its promise is rejected
Children(objs, id) ==
  LET o == objs[id]
      any == TypesOf(objs)
      member(ref) == IF Found(objs, ref, any) THEN <<ref>> ELSE << >>
  IN CASE o.type = "message" -> member(o.object)
       [] o.type = "task" -> member(o.host)
       [] o.type = "VBD" -> member(o.VDI)
       [] o.type = "VM-snapshot" -> member(o.snapshot_of)
       [] o.type = "VDI" ->
            IF /\ \A i \in DOMAIN o.VBDs : Found(objs, o.VBDs[i], {"VBD"})
               /\ \A i \in DOMAIN o.VBDs : Found(objs, objs[o.VBDs[i]].VM, {"VM"})
               /\ Found(objs, o.SR, {"SR"})
            THEN [i \in DOMAIN o.VBDs |-> objs[o.VBDs[i]].VM] \o <<o.SR>>
            ELSE << >>
       [] o.type = "VIF" ->
            IF Found(objs, o.network, any) /\ Found(objs, o.VM, any)
            THEN <<o.network, o.VM>>
            ELSE << >>
       [] OTHER -> << >>

\* one call of checkAuthorization: its object, the calls it has still to make
\* and whether one of those it made was fulfilled
Frame(objs, id) == [id |-> id, todo |-> Children(objs, id), any |-> FALSE]

\* the result of a call that has no call left to make
Result(objs, store, f, permission) ==
  CASE Rule(objs[f.id].type) = "authorized" -> TRUE
    [] Rule(objs[f.id].type) = "default" ->
         defaultCheckAuthorization(store, "alice", f.id, permission)
    [] OTHER -> f.any

\* checkAuthorization.call(this, userId, object, permission)
Ask ==
  /\ verdict # "pending"
  /\ \E id \in DOMAIN ObjectsOf(graph), p \in Permissions :
       /\ req' = [id |-> id, permission |-> p]
       /\ stack' = <<Frame(ObjectsOf(graph), id)>>
  /\ verdict' = "pending"
  /\ UNCHANGED <<acl, pc, call, user, params, checks, log, outcome, raised,
                 graph, schedVars>>

\* the innermost call calls checkAuthorization for the next object
AuthDescend ==
  /\ verdict = "pending"
  /\ Len(stack) < MaxDepth
  /\ LET k == Len(stack)
         f == stack[k]
     IN /\ f.todo # << >>
        /\ stack' = Append([stack EXCEPT ![k].todo = Tail(f.todo)],
                           Frame(ObjectsOf(graph), Head(f.todo)))
  /\ UNCHANGED <<acl, pc, call, user, params, checks, log, outcome, raised,
                 graph, req, verdict, schedVars>>

\* the innermost call has no call left to make: its promise settles
AuthReturn ==
  /\ verdict = "pending"
  /\ LET k == Len(stack)
         f == stack[k]
         r == Result(ObjectsOf(graph), acl, f, req.permission)
     IN /\ f.todo = << >>
        /\ IF k = 1
           THEN /\ stack' = << >>
                /\ verdict' = IF r THEN "allowed" ELSE "denied"
           ELSE /\ stack' = [SubSeq(stack, 1, k - 1) EXCEPT
                               ![k - 1].any = stack[k - 1].any \/ r]
                /\ verdict' = verdict
  /\ UNCHANGED <<acl, pc, call, user, params, checks, log, outcome, raised,
                 graph, req, schedVars>>

\* the calls nest deeper than the call stack allows: the check never reaches
\* an object that is decided directly
AuthOverflow ==
  /\ verdict = "pending"
  /\ Len(stack) = MaxDepth
  /\ stack[Len(stack)].todo # << >>
  /\ stack' = << >>
  /\ verdict' = "overflow"
  /\ UNCHANGED <<acl, pc, call, user, params, checks, log, outcome, raised,
                 graph, req, schedVars>>

(***************************************************************************)
(* Specifications                                                          *)
(***************************************************************************)
Init == SchedInit /\ ApiQuiet

\* the scheduler's operations on two schedules, with start() and stop() able
\* to throw
Load == LoadWith(Ids, StartOutcomes)
Add == AddWith(Ids, StartOutcomes)
Remove == RemoveWith(Ids, StopOutcomes)
Update == UpdateWith(Ids, StartOutcomes, StopOutcomes)
UpdateResume == UpdateResumeWith(StartOutcomes)
DisableAll == DisableAllWith(StopOutcomes)

Next ==
  \/ Load
  \/ Add
  \/ Remove
  \/ Update
  \/ UpdateResume
  \/ DisableAll

Spec == Init /\ [][Next]_vars

\* the same operations with a cron library that never throws from start()
\* or stop()
Reliable == {"ok"}
LoadR == LoadWith(Ids, Reliable)
AddR == AddWith(Ids, Reliable)
RemoveR == RemoveWith(Ids, Reliable)
UpdateR == UpdateWith(Ids, Reliable, Reliable)
UpdateResumeR == UpdateResumeWith(Reliable)
DisableAllR == DisableAllWith(Reliable)

NextReliable ==
  \/ LoadR
  \/ AddR
  \/ RemoveR
  \/ UpdateR
  \/ UpdateResumeR
  \/ DisableAllR

SpecReliable == Init /\ [][NextReliable]_vars

\* one schedule with its timers firing and the Store's job changing
FireIds == {"s1"}
LoadF == LoadWith(FireIds, StartOutcomes)
AddF == AddWith(FireIds, StartOutcomes)
RemoveF == RemoveWith(FireIds, StopOutcomes)
UpdateF == UpdateWith(FireIds, StartOutcomes, StopOutcomes)
UpdateResumeF == UpdateResumeWith(StartOutcomes)
DisableAllF == DisableAllWith(StopOutcomes)

NextFire ==
  \/ LoadF
  \/ AddF
  \/ RemoveF
  \/ UpdateF
  \/ UpdateResumeF
  \/ DisableAllF
  \/ Tick
  \/ FireDone
  \/ StoreChange

SpecFire == Init /\ [][NextFire]_vars

\* the fire callbacks of two schedules that are loaded, added, removed and
\* disabled while the Store's jobs change
NextFireTwo ==
  \/ LoadR
  \/ AddR
  \/ RemoveR
  \/ DisableAllR
  \/ Tick
  \/ FireDone
  \/ StoreChange

SpecFireTwo == Init /\ [][NextFireTwo]_vars

\* the dispatcher handling one call after the other
InitApi == SchedInit /\ ApiInit

NextApi ==
  \/ Call
  \/ FetchUser
  \/ Check
  \/ Resolve
  \/ Body

\* checkAuthorization asked for any object and permission, over well-formed
\* and malformed data; a call in progress always gets to run
InitAuth ==
  /\ SchedInit
  /\ acl \in AuthStores
  /\ pc = "idle"
  /\ call = NoCall
  /\ user = NoUser
  /\ params = EmptyMap
  /\ checks = << >>
  /\ log = << >>
  /\ outcome = NoOutcome
  /\ raised = NoOutcome
  /\ graph \in Graphs
  /\ req = NoReq
  /\ stack = << >>
  /\ verdict = "none"

AuthStep == AuthDescend \/ AuthReturn \/ AuthOverflow

NextAuth == Ask \/ AuthDescend \/ AuthReturn \/ AuthOverflow

SpecAuth == InitAuth /\ [][NextAuth]_vars /\ WF_vars(AuthStep)

SpecApi == InitApi /\ [][NextApi]_vars

(***************************************************************************)
(* Scheduler: properties                                                   *)
(***************************************************************************)
RunningTimers(id) ==
  { n \in DOMAIN timers : timers[n].sid = id /\ timers[n].running }

\* C1: at every moment at most one started and not stopped cron timer exists
\* per schedule id, whatever the interleaving of add, update, remove and
\* disableAll
C1_OneTimerPerId == \A id \in Ids : Cardinality(RunningTimers(id)) <= 1

\* C2: a timer handle is held for an id exactly when the runtime table marks
\* the id enabled
C2_HandleIffEnabled ==
  \A id \in Ids : (id \in DOMAIN cronJobs) <=> isEnabled(Cur, id)

\* C3: an error of the disable step of remove that is no SchedulerError
\* reaches the caller of remove
C3_RemovePropagates ==
  (last.op = "remove" /\ last.inner \notin SchedulerErrors \cup {NoExc})
    => last.exc = last.inner

\* C4: once remove(id) has finished the id is absent from the records and
\* from the runtime table, and remove did not throw when the id was disabled
\* or absent
C4_RemoveCleans ==
  last.op = "remove" =>
    /\ last.id \notin DOMAIN schedules
    /\ last.id \notin DOMAIN scheduleTable
    /\ ~last.wasEnabled => last.exc = NoExc

\* C5: a timer that _disable (called directly, by update or by remove) has
\* stopped begins no new fire: no callback in flight and no callback that
\* completed started from a tick after the stop
C5_NoFireAfterStop ==
  /\ \A n \in DOMAIN fires : ~fires[n]
  /\ last.op \in {"exec", "fireFailed"} => ~last.late

\* C5 witness: a fire in flight when its timer was stopped completes and calls
\* Executor.exec
C5_Witness == last.op = "exec" /\ last.stopped /\ ~last.late
(***************************************************************************)
(* Api: properties                                                         *)
(***************************************************************************)
Logged(stage) == \E i \in DOMAIN log : log[i] = stage

Invoked == Logged("invoke")

NonAdmin == user # NoUser /\ ~hasPermission(user, "admin")

TheMethod == Methods[call.name]

\* the declared permission of the method is met by the caller
PermissionMet ==
  CASE TheMethod.permission = Undefined -> TRUE
    [] TheMethod.permission = "" -> user # NoUser
    [] OTHER -> user # NoUser /\ hasPermission(user, TheMethod.permission)

\* the params the call was given fit the declared schema
SchemaMet ==
  ~TheMethod.hasParams \/
  \A k \in DOMAIN TheMethod.params :
    IF k \in DOMAIN call.params THEN call.params[k].t = "string"
    ELSE TheMethod.params[k].optional

\* C6: for a non-admin caller of a method with a resolve spec the body is
\* invoked only if the authorization check of every resolve entry (of every
\* param supplied) succeeded; a rejected check ends the call with
\* Unauthorized and no invocation
C6_BodyOnlyIfAllAuthorized ==
  (registered(call.name) /\ NonAdmin /\ TheMethod.resolve # << >>) =>
    /\ Invoked =>
         \A i \in DOMAIN TheMethod.resolve :
           LET e == TheMethod.resolve[i]
           IN e.param \in DOMAIN call.params =>
                /\ getObjectOk(call.params[e.param].v, e.types)
                /\ checkAuthorization(acl, user, call.params[e.param].v,
                                      e.permission)
    /\ (pc \in {"body", "done"} /\
        \E i \in DOMAIN checks :
          ~checkAuthorization(acl, user, checks[i].object, checks[i].permission))
         => (~Invoked /\ outcome = Threw("Unauthorized"))

\* C6 witness: a non-admin call of a method with two resolve entries whose
\* checks both succeeded reaches the body
C6_Witness == Invoked /\ NonAdmin /\ Len(checks) = 2

\* the permission store denies the user on every object containing id
DeniedOnContainers(id, permission) ==
  LET o == Objects[id]
  IN CASE o.type = "VIF" ->
            /\ ~storeHasPermission(acl, user, o.network, permission)
            /\ ~storeHasPermission(acl, user, o.VM, permission)
       [] o.type = "VDI" ->
            /\ ~storeHasPermission(acl, user, o.SR, permission)
            /\ \A i \in DOMAIN o.VBDs :
                 ~storeHasPermission(acl, user, Objects[o.VBDs[i]].VM, permission)
       [] OTHER -> FALSE

\* C7: a non-admin call resolving a VIF or a VDI that the permission store
\* denies on every containing object is not invoked and fails with
\* Unauthorized
C7_DeniedOnEveryPath ==
  (NonAdmin /\ pc \in {"body", "done"} /\
   \E i \in DOMAIN checks :
     DeniedOnContainers(checks[i].object, checks[i].permission))
    => (~Invoked /\ outcome = Threw("Unauthorized"))

\* the call resolves exactly one object, a VIF
ResolvesVIF ==
  /\ NonAdmin
  /\ pc \in {"body", "done"}
  /\ Len(checks) = 1
  /\ Objects[checks[1].object].type = "VIF"

\* C8: the authorization of a VIF succeeds when the check passes for its
\* network or for its VM, whatever the other one does
C8_VifEitherPath ==
  ResolvesVIF =>
    LET vif == Objects[checks[1].object]
        p == checks[1].permission
    IN (checkAuthorization(acl, user, vif.network, p) \/
        checkAuthorization(acl, user, vif.VM, p)) => Invoked

\* C8 witness: the VIF is authorized although the check of its VM fails
C8_Witness ==
  /\ ResolvesVIF
  /\ Invoked
  /\ ~checkAuthorization(acl, user, Objects[checks[1].object].VM,
                         checks[1].permission)

\* C9: no declared permission needs no user, the empty permission needs a
\* user, any other needs a user who has it; when met the call goes on to the
\* validation, otherwise it fails with Unauthorized and the body is not
\* invoked
C9_DeclaredPermission ==
  (registered(call.name) /\ Logged("checkPermission")) =>
    IF PermissionMet
    THEN Logged("checkParams")
    ELSE pc = "done" /\ outcome = Threw("Unauthorized") /\ ~Invoked

\* C9 witness: user.create called by a non-admin has ended in Unauthorized
C9_Witness ==
  /\ call.name = "user.create"
  /\ user = "alice"
  /\ pc = "done"
  /\ outcome = Threw("Unauthorized")

StageRank ==
  [lookup |-> 1, fetchUser |-> 2, checkPermission |-> 3, checkParams |-> 4,
   getObject |-> 5, invoke |-> 6]

\* C10: the stages run in the order lookup, user fetch, permission check,
\* validation, resolution, invocation and the first failure ends the call:
\* nothing follows the lookup of an unregistered name, a failed permission
\* check wins over invalid params, and a call that fails permission or
\* validation looks no object up and leaves params as given
C10_StageOrder ==
  /\ \A i, j \in DOMAIN log :
       i < j => /\ StageRank[log[i]] <= StageRank[log[j]]
                /\ StageRank[log[i]] = StageRank[log[j]] => log[i] = "getObject"
  /\ (pc # "idle" /\ ~registered(call.name)) =>
       (log = <<"lookup">> /\ outcome = Threw("MethodNotFound") /\ user = NoUser)
  /\ (registered(call.name) /\ Logged("checkPermission")) =>
       /\ ~PermissionMet =>
            (outcome = Threw("Unauthorized") /\ log[Len(log)] = "checkPermission")
       /\ (PermissionMet /\ ~SchemaMet) =>
            (outcome = Threw("InvalidParameters") /\ log[Len(log)] = "checkParams")
       /\ (~PermissionMet \/ ~SchemaMet) =>
            (~Logged("getObject") /\ ~Invoked /\ params = call.params)
  /\ outcome = Threw("NoSuchObject") => log[Len(log)] = "getObject"

\* C10 witness: a caller without the declared permission sent invalid params
\* and got Unauthorized
C10_Witness ==
  /\ registered(call.name)
  /\ pc = "done"
  /\ ~PermissionMet
  /\ ~SchemaMet
  /\ outcome = Threw("Unauthorized")
IsAdmin == user # NoUser /\ hasPermission(user, "admin")

\* a resolve entry of the call whose id getObject does not find with an
\* allowed type
BadLookup ==
  \E i \in DOMAIN TheMethod.resolve :
    LET e == TheMethod.resolve[i]
    IN /\ e.param \in DOMAIN call.params
       /\ ~getObjectOk(call.params[e.param].v, e.types)

\* C11: an admin caller skips the authorization checks of the resolution but
\* not the lookup: the call of an admin never yields Unauthorized and starts
\* no check, and an id that does not resolve, or resolves to a type outside
\* the allowed set, fails the call with NoSuchObject without invoking the body
C11_AdminBypass ==
  (registered(call.name) /\ IsAdmin) =>
    /\ outcome # Threw("Unauthorized")
    /\ checks = << >>
    /\ (pc \in {"resolve", "body", "done"} /\ SchemaMet /\ BadLookup) =>
         (pc = "done" /\ outcome = Threw("NoSuchObject") /\ ~Invoked)
    /\ (pc \in {"body", "done"} /\ SchemaMet /\ ~BadLookup) => Invoked

\* C11 witness: an admin named an object of a type outside the allowed set
\* and the call ended with NoSuchObject
C11_Witness ==
  /\ registered(call.name)
  /\ IsAdmin
  /\ pc = "done"
  /\ outcome = Threw("NoSuchObject")
  /\ \E k \in DOMAIN call.params : call.params[k].v \in DOMAIN Objects

\* C12: params that violate the declared schema fail the call with
\* InvalidParameters and the body is not invoked; a method without a schema
\* is never rejected by the validation
C12_InvalidParameters ==
  registered(call.name) =>
    /\ (Logged("checkParams") /\ ~SchemaMet) =>
         (pc = "done" /\ outcome = Threw("InvalidParameters") /\ ~Invoked)
    /\ outcome = Threw("InvalidParameters") =>
         (TheMethod.hasParams /\ ~SchemaMet)

\* C12 witness: user.create called by an admin without the required password
C12_Witness ==
  /\ call.name = "user.create"
  /\ "password" \notin DOMAIN call.params
  /\ IsAdmin
  /\ outcome = Threw("InvalidParameters")

\* C13: a call of a name that is not registered fails with MethodNotFound
\* and does nothing else: no user is fetched, no object looked up, no check
\* started, params stay as given, the body is not invoked and the permission
\* store and the scheduler are untouched
C13_MethodNotFound ==
  [][(pc' # "idle" /\ ~registered(call'.name)) =>
       /\ pc' = "done"
       /\ outcome' = Threw("MethodNotFound")
       /\ log' = <<"lookup">>
       /\ user' = NoUser
       /\ params' = call'.params
       /\ checks' = << >>
       /\ acl' = acl
       /\ schedVars' = schedVars]_vars

\* C13 witness: a session with a user called a name that is not registered
C13_Witness ==
  /\ pc = "done"
  /\ ~registered(call.name)
  /\ call.user # NoUser
  /\ outcome = Threw("MethodNotFound")
(***************************************************************************)
(* Scheduler: properties of single operations                              *)
(***************************************************************************)
\* the CronJobs of a schedule id that can still act: started, or held by the
\* handle of the id
TimersOf(tm, cj, id) ==
  { n \in DOMAIN tm : tm[n].sid = id /\ (tm[n].running \/ (id \in DOMAIN cj /\ cj[id] = n)) }

\* the record, the flag and the timers of id are left as they were
SameFor(id) ==
  /\ (id \in DOMAIN schedules') = (id \in DOMAIN schedules)
  /\ id \in DOMAIN schedules => schedules'[id] = schedules[id]
  /\ (id \in DOMAIN scheduleTable') = (id \in DOMAIN scheduleTable)
  /\ id \in DOMAIN scheduleTable => scheduleTable'[id] = scheduleTable[id]
  /\ (id \in DOMAIN cronJobs') = (id \in DOMAIN cronJobs)
  /\ id \in DOMAIN cronJobs => cronJobs'[id] = cronJobs[id]
  /\ TimersOf(timers', cronJobs', id) = TimersOf(timers, cronJobs, id)
  /\ \A n \in TimersOf(timers, cronJobs, id) : timers'[n] = timers[n]

\* C14: add on an id that is present fails with ScheduleOverride and leaves
\* the record, the enabled flag and the timer of the id unchanged
C14_AddOverride ==
  [][(last'.op = "add" /\ last'.id \in DOMAIN schedules) =>
       /\ last'.exc = "ScheduleOverride"
       /\ SameFor(last'.id)
       /\ loaded' = loaded]_vars

\* C14 witness: add was refused for an id that is enabled with its timer
C14_Witness ==
  /\ last.op = "add"
  /\ last.exc = "ScheduleOverride"
  /\ isEnabled(Cur, last.id)
  /\ TimersOf(timers, cronJobs, last.id) # {}

\* C15: after a successful add(s) on an absent id the schedule is present
\* with the record s, isEnabled(s.id) equals s.enabled and a timer exists
\* for the id iff s.enabled
C15_AddPostcondition ==
  [][(last'.op = "add" /\ last'.exc = NoExc /\ last'.id \notin DOMAIN schedules) =>
       LET id == last'.id
       IN /\ id \in DOMAIN schedules'
          /\ schedules'[id] \in AddInputs
          /\ (id \in DOMAIN scheduleTable' /\ scheduleTable'[id] = TRUE)
               <=> schedules'[id].enabled
          /\ IF schedules'[id].enabled
             THEN Cardinality(TimersOf(timers', cronJobs', id)) = 1
             ELSE TimersOf(timers', cronJobs', id) = {}]_vars
\* the state update(s) must leave behind: the record is s, the flag is
\* s.enabled and, when enabled, one timer bound to the cron and job of s
UpdatedTo(s) ==
  /\ s.id \in DOMAIN schedules'
  /\ schedules'[s.id] = s
  /\ (s.id \in DOMAIN scheduleTable' /\ scheduleTable'[s.id] = TRUE) <=> s.enabled
  /\ s.enabled =>
       /\ Cardinality(TimersOf(timers', cronJobs', s.id)) = 1
       /\ \A n \in TimersOf(timers', cronJobs', s.id) :
            /\ timers'[n].cron = s.cron
            /\ timers'[n].job = s.job
            /\ timers'[n].running

\* C16: an update(s) of a present id that completes with no other call
\* between its two halves leaves the record s, isEnabled(id) = s.enabled and,
\* when enabled, exactly one timer bound to the new cron and job, whether the
\* schedule was disabled before (the update runs in one step) or enabled (it
\* is suspended once after _disable and resumed at once)
C16_UpdatePostcondition ==
  [][(last'.op = "update" /\ last'.exc = NoExc) =>
       IF last'.wasEnabled
       THEN (last.op = "updateAwait" /\ Cardinality(pending) = 1) =>
              \A s \in pending : UpdatedTo(s)
       ELSE \E s \in UpdateInputs : s.id = last'.id /\ UpdatedTo(s)]_vars
\* _disable refuses an id that does not meet its precondition and changes
\* nothing
Refuses(id) ==
  /\ ~exists(Cur, id) =>
       \A so \in StopOutcomes :
         _disable(Cur, id, so) = [Cur EXCEPT !.exc = "NoSuchSchedule"]
  /\ (exists(Cur, id) /\ ~isEnabled(Cur, id)) =>
       \A so \in StopOutcomes :
         _disable(Cur, id, so) = [Cur EXCEPT !.exc = "ScheduleNotEnabled"]

\* C17: _disable of an absent id fails with NoSuchSchedule, _disable of a
\* present id that is not enabled fails with ScheduleNotEnabled, update
\* called on an absent id fails with NoSuchSchedule, and none of them
\* modifies a record, a flag or a timer
C17_PreconditionFailures ==
  [][/\ \A id \in Ids : Refuses(id)
     /\ (last'.op = "update" /\ ~last'.wasEnabled /\
         last'.id \notin DOMAIN schedules) =>
          /\ last'.exc = "NoSuchSchedule"
          /\ <<loaded, schedules, scheduleTable, cronJobs, timers, pending>>' =
               <<loaded, schedules, scheduleTable, cronJobs, timers, pending>>
     /\ (last'.op = "remove" /\ ~isEnabled(Cur, last'.id)) =>
          last'.inner = IF exists(Cur, last'.id) THEN "ScheduleNotEnabled"
                                                ELSE "NoSuchSchedule"]_vars
(***************************************************************************)
(* Scheduler: properties of the fire callback                              *)
(***************************************************************************)
\* the step ends the callback of timer n: _getJob has answered
Fired(n) == n \in DOMAIN fires /\ n \notin DOMAIN fires'

\* C18: each fire fetches the job from the Store by the job id of the
\* schedule the timer was enabled for and hands executor.exec, once, the
\* definition the Store holds at that fire, not an earlier one
C18_FreshJob ==
  [][\A n \in DOMAIN fires :
       (Fired(n) /\ last'.timer = n) =>
         /\ last'.op \in {"exec", "fireFailed"}
         /\ last'.id = timers[n].sid
         /\ last'.job = jobStore[timers[n].job]
         /\ last'.op = "exec" <=> jobStore[timers[n].job] # NoJob
         /\ (isEnabled(Cur, timers[n].sid) /\ cronJobs[timers[n].sid] = n) =>
              timers[n].job = schedules[timers[n].sid].job]_vars

\* C18 witness: a fire handed the executor a definition the Store did not
\* hold when the schedule was enabled
C18_Witness ==
  /\ last.op = "exec"
  /\ last.job = "v2"
  /\ last.id \in DOMAIN schedules
  /\ isEnabled(Cur, last.id)
\* C19: a fire that finds no job in the Store fails with ScheduleJobNotFound
\* without a call of executor.exec and changes nothing else: every record,
\* flag and handle stays, every timer that can still act stays as it is, and
\* the timer that fired can fire again
C19_FailedFireIsScoped ==
  [][\A n \in DOMAIN fires :
       (Fired(n) /\ last'.timer = n /\ jobStore[timers[n].job] = NoJob) =>
         /\ last'.op = "fireFailed"
         /\ last'.exc = "ScheduleJobNotFound"
         /\ <<loaded, schedules, scheduleTable, cronJobs, pending, jobStore>>' =
              <<loaded, schedules, scheduleTable, cronJobs, pending, jobStore>>
         /\ \A id \in Ids : SameFor(id)
         /\ timers[n].running =>
              (n \in DOMAIN timers' /\ timers'[n].running /\ n \notin DOMAIN fires')]_vars

\* C19 witness: after a fire of an enabled schedule failed, its timer has
\* ticked again while the other schedule is still enabled
C19_Witness ==
  /\ last.op = "fireFailed"
  /\ last.timer \in DOMAIN fires
  /\ \A id \in Ids : isEnabled(Cur, id)
\* C20: after disableAll() has returned no schedule is enabled and no timer
\* is started, every schedule that was present is still present with its
\* record, and every id that was enabled has had its timer stopped and its
\* handle discarded by one call of _disable
C20_DisableAll ==
  [][(last'.op = "disableAll" /\ last'.exc = NoExc) =>
       /\ \A id \in Ids : ~(id \in DOMAIN scheduleTable' /\ scheduleTable'[id] = TRUE)
       /\ \A n \in DOMAIN timers' : ~timers'[n].running
       /\ schedules' = schedules
       /\ DOMAIN scheduleTable' = DOMAIN scheduleTable
       /\ \A id \in Ids :
            isEnabled(Cur, id) => id \notin DOMAIN cronJobs']_vars
\* C21: the outcome of call is the outcome of the pipeline unchanged: what
\* the body returns is returned as is, true standing for undefined, and an
\* error thrown by the permission check, the validation, the object lookup,
\* the resolution or the body reaches the caller as that same error
C21_OutcomeUnchanged ==
  /\ pc = "done" =>
       /\ raised # NoOutcome
       /\ raised.kind = "error" => outcome = raised
       /\ raised = Returned(Undefined) => outcome = Returned("true")
       /\ (raised.kind = "value" /\ raised # Returned(Undefined)) => outcome = raised
       /\ raised.kind = "value" => Invoked
  /\ pc # "done" => outcome = NoOutcome

\* C21 witness: the method body threw and the caller got its error
C21_Witness ==
  /\ pc = "done"
  /\ Invoked
  /\ raised = Threw("BodyError")
  /\ outcome = Threw("BodyError")
\* the object an owned type is authorized through
ParentOf(id) ==
  LET o == Objects[id]
  IN CASE o.type = "message" -> o.object
       [] o.type = "task" -> o.host
       [] o.type = "VBD" -> o.VDI
       [] o.type = "VM-snapshot" -> o.snapshot_of

\* C22: for a message, task, VBD and VM-snapshot the authorization result is
\* the result of the object it refers to ($object, $host, VDI, $snapshot_of)
\* for the same user and permission, and a rejection when that object cannot
\* be looked up; a network and a VM-template are always authorized; a type
\* with no rule is authorized iff the permission store has the permission
\* for the object's id. A check that has settled gives that same result.
C22_OwnedTypes ==
  /\ \A id \in DOMAIN Objects, p \in Permissions :
       LET r == checkAuthorization(acl, "alice", id, p)
       IN /\ Rule(Objects[id].type) = "member" =>
               IF getObjectOk(ParentOf(id), AnyType)
               THEN r = checkAuthorization(acl, "alice", ParentOf(id), p)
               ELSE ~r
          /\ Rule(Objects[id].type) = "authorized" => r
          /\ Rule(Objects[id].type) = "default" =>
               r = storeHasPermission(acl, "alice", id, p)
  /\ (graph = "dag" /\ verdict \in {"allowed", "denied"}) =>
       LET allowed == verdict = "allowed"
       IN /\ Rule(Objects[req.id].type) = "member" =>
               IF getObjectOk(ParentOf(req.id), AnyType)
               THEN allowed = checkAuthorization(acl, "alice", ParentOf(req.id),
                                                 req.permission)
               ELSE ~allowed
          /\ Rule(Objects[req.id].type) = "authorized" => allowed
          /\ Rule(Objects[req.id].type) = "default" =>
               allowed = storeHasPermission(acl, "alice", req.id, req.permission)

C22_Witness ==
  /\ graph = "dag"
  /\ verdict = "allowed"
  /\ req = [id |-> "msg1", permission |-> "operate"]

\* C23: when the references between the objects form a DAG, a check never
\* nests without end, and every check that was asked settles, allowed or
\* denied, provided the calls in progress get to run
C23_Settles ==
  /\ [](graph = "dag" => verdict # "overflow")
  /\ \A id \in DOMAIN Objects, p \in Permissions :
       (graph = "dag" /\ verdict = "pending"
          /\ req = [id |-> id, permission |-> p])
         ~> (verdict \in {"allowed", "denied"}
               /\ req = [id |-> id, permission |-> p])

C23_Witness ==
  /\ graph = "dag"
  /\ verdict \in {"allowed", "denied"}
  /\ req.id = "msg1"
  /\ stack = << >>

\* C24: in every state an id is in the schedule records (exists) iff it has
\* an entry in the runtime table, whatever operations run before and after
\* the initial load completes; and when the load completes, every schedule
\* in the records has an entry whose value is its enabled flag
C24_InStep ==
  /\ [](\A id \in Ids : exists(Cur, id) <=> id \in DOMAIN scheduleTable)
  /\ [][(last'.op = "load") =>
          \A id \in DOMAIN schedules' :
            /\ id \in DOMAIN scheduleTable'
            /\ scheduleTable'[id] = schedules'[id].enabled]_vars

\* the field k of params is named by no resolve entry of the method
Unnamed(k) ==
  \A i \in DOMAIN TheMethod.resolve :
    k # TheMethod.resolve[i].key /\ k # TheMethod.resolve[i].param

\* C25: when the method body is invoked, for every resolve entry whose param
\* was supplied the params hold the looked-up object under key and, unless
\* key and param are the same name, no longer hold anything under param;
\* every field no entry names is as the caller gave it and no field is added;
\* and the check a non-admin's entry started asks for the entry's permission,
\* 'administrate' when the entry gives none
C25_ParamsResolved ==
  (Invoked /\ registered(call.name)) =>
    /\ \A i \in DOMAIN TheMethod.resolve :
         LET e == TheMethod.resolve[i]
         IN e.param \in DOMAIN call.params =>
              /\ e.key \in DOMAIN params
              /\ params[e.key] = Resolved(call.params[e.param].v)
              /\ e.param # e.key => e.param \notin DOMAIN params
              /\ NonAdmin =>
                   \E j \in DOMAIN checks :
                     /\ checks[j].key = e.key
                     /\ checks[j].object = call.params[e.param].v
                     /\ checks[j].permission =
                          IF e.given = Undefined THEN "administrate"
                          ELSE e.given
    /\ \A k \in DOMAIN call.params \cup DOMAIN params :
         Unnamed(k) =>
           /\ k \in DOMAIN call.params
           /\ k \in DOMAIN params
           /\ params[k] = call.params[k]

\* C25 witness: a non-admin's vdi.delete({id: 'vdi1', force: 'yes'}) reaches
\* the body with {vdi: <the VDI>, force: 'yes'}, checked at 'administrate'
C25_Witness ==
  /\ Invoked
  /\ NonAdmin
  /\ call.name = "vdi.delete"
  /\ call.params = [id |-> Str("vdi1"), force |-> Str("yes")]
  /\ params = [vdi |-> Resolved("vdi1"), force |-> Str("yes")]
  /\ checks[1].permission = "administrate"
====
